---- MODULE Spec2Model ----
(***************************************************************************)
(* Concordance pipeline of buckmaxwell/concordance.                        *)
(*                                                                         *)
(*   concordance.py      split_file -> pool.map(add_data_to_db) ->         *)
(*                       combine_database_files -> add_index_to_db ->      *)
(*                       print_db                      (specification Spec)*)
(*   add_data_worker.py  the RabbitMQ consumer handle_message              *)
(*                          (specification SpecQ; SpecQLive with fairness) *)
(*   integer_to_letter   the line labels          (specification SpecLabel)*)
(*                                                                         *)
(* Text is a sequence of tokens, one token being one unit of file size;    *)
(* the whitespace between tokens is not represented, so neither is         *)
(* what strip() and ' '.join() do to it.  The external segmenter           *)
(* nlp(text).sents is the deterministic rule "a sentence ends after a      *)
(* terminator token".                                                      *)
(***************************************************************************)
EXTENDS Integers, Sequences, FiniteSets, TLC

VARIABLES
    doc,               \* the input document (sys.argv[1])
    number_of_threads, \* NUMBER_OF_THREADS: shard count K and pool size
    chunk_size,        \* read_in_chunks' chunk_size, in tokens
    bulk_insert_size,  \* BULK_INSERT_SIZE, in rows
    iobuf,             \* capacity of the write buffer of an open shard file
    pc,                \* position of __main__
    run,               \* 1 for the first run of the program, 2 for the rerun
    files,             \* ___generated___.N : text written so far
    disk,              \* ___generated___.N : size os.path.getsize reports
    sp,                \* locals of split_file
    wpc,               \* pool.map: state of the task of each shard
    sentences,         \* pool.map: value returned by each task
    db,                \* bridgewaterN.db : rows of table words, in rowid order
    index,             \* bridgewaterN.db : word_index exists
    mg,                \* combine_database_files: position in databases
    pr,                \* locals of print_db
    output,            \* lines written by print_db in this run
    prev_output,       \* lines written by print_db in the first run
    queue,             \* filename_queue: jobs ready for delivery, oldest first
    cons,              \* consumers of filename_queue (add_data_worker.py)
    completed,         \* messages published on queue 'completed'
    reported,          \* the job each message of completed was published for
    failures,          \* consumer failures so far
    lab                \* integer_to_letter applied to two line numbers

vars == <<doc, number_of_threads, chunk_size, bulk_insert_size, iobuf, pc, run,
          files, disk, sp, wpc, sentences, db, index, mg, pr, output,
          prev_output, queue, cons, completed, reported, failures, lab>>

pipeVars == <<doc, number_of_threads, chunk_size, bulk_insert_size, iobuf, pc,
              run, files, disk, sp, wpc, sentences, db, index, mg, pr, output,
              prev_output>>
queueVars == <<queue, cons, completed, reported, failures>>

(***************************************************************************)
(* Bounds of the model.  CHUNK_SIZE and BULK_INSERT_SIZE carry the         *)
(* source's names but are scaled to token and row counts a bounded         *)
(* document reaches (the source has 1024 characters and 2500 rows).        *)
(***************************************************************************)
MaxDocLen == 8
MaxThreads == 3
MaxIOBuf == 1
CHUNK_SIZE == 1
BULK_INSERT_SIZE == 2
MaxLine == 60
QShards == 2
QConsumers == 2
MaxFailures == 2

\* "NUMBER_OF_THREADS = 4 # max 10": the largest shard count
MAX_NUMBER_OF_THREADS == 10

(***************************************************************************)
(* Tokens and words                                                        *)
(***************************************************************************)
\* 'z'*25, the word of the fake row add_data_to_db appends
SENTINEL_WORD == "zzzzzzzzzzzzzzzzzzzzzzzzz"

\* token.pos_ == 'PUNCT'
IsPunct(token) == token \in {".", "..."}

\* len(token), len(word)
StrLen(s) ==
    CASE s = "." -> 1
      [] s = "..." -> 3
      [] s = "run" -> 3
      [] s \in {"Dogs", "Cats", "dogs", "cats", "bark", "meow"} -> 4
      [] s = "école" -> 5
      [] s = SENTINEL_WORD -> 25
      [] OTHER -> 4

\* str(token).lower().strip()
Lower(token) ==
    CASE token = "Dogs" -> "dogs"
      [] token = "Cats" -> "cats"
      [] OTHER -> token

\* SQLite's BINARY collation of the words a store can hold (memcmp of UTF-8)
WordOrder ==
    <<".", "...", "Cats", "Dogs", "bark", "cats", "dogs", "meow", "run",
      SENTINEL_WORD, "école">>

Rank(word) == CHOOSE i \in 1..Len(WordOrder) : WordOrder[i] = word

\* the segmenter ends a sentence after one of these tokens
Terminators == {"."}

RECURSIVE SentsFrom(_, _, _)
SentsFrom(text, i, cur) ==
    IF i > Len(text)
    THEN (IF cur = <<>> THEN <<>> ELSE <<cur>>)
    ELSE IF text[i] \in Terminators
         THEN <<Append(cur, text[i])>> \o SentsFrom(text, i + 1, <<>>)
         ELSE SentsFrom(text, i + 1, Append(cur, text[i]))

\* [sent.string.strip() for sent in nlp(text).sents]
Sents(text) == SentsFrom(text, 1, <<>>)

RECURSIVE Join(_)
\* ' '.join(sents)
Join(sents) == IF sents = <<>> THEN <<>> ELSE Head(sents) \o Join(Tail(sents))

\* sents[:-1]
AllButLast(s) == SubSeq(s, 1, Len(s) - 1)

\* sents[-1]
Last(s) == s[Len(s)]

Min(a, b) == IF a < b THEN a ELSE b

\* one item of read_in_chunks: file_object.read(chunk_size) at position pos
ReadChunk(text, pos, size) == SubSeq(text, pos + 1, Min(pos + size, Len(text)))

(***************************************************************************)
(* The worker: add_sentence_to_word_rows and add_data_to_db                *)
(* (the same text in concordance.py and in add_data_worker.py)             *)
(***************************************************************************)
\* the test of line 185: the token is skipped as punctuation
IsSkipped(token) ==
    \/ (StrLen(token) = 1 /\ IsPunct(token))
    \/ (StrLen(token) = 3 /\ IsPunct(token))

Row(word, sentence_no, file_no) ==
    [word |-> word, sentence_no |-> sentence_no, file_no |-> file_no]

\* the word of a token without lower()
WordNotLowered(token) == token

\* the word of a token that is kept: lower-cased and stripped
WordOf(token) == Lower(token)

\* word_rows after add_sentence_to_word_rows(sentence, word_rows, sentence_no, file_no)
add_sentence_to_word_rows(sentence, word_rows, sentence_no, file_no) ==
    LET kept == SelectSeq(sentence,
                          LAMBDA t : ~IsSkipped(t) /\ WordOf(t) # "")
    IN  word_rows \o
        [i \in 1..Len(kept) |-> Row(WordOf(kept[i]), sentence_no, file_no)]

RECURSIVE AddSentences(_, _, _, _)
\* for s in sents[:-1]: sentence_no += 1; add_sentence_to_word_rows(...)
AddSentences(sents, word_rows, sentence_no, file_no) ==
    IF sents = <<>>
    THEN [word_rows |-> word_rows, sentence_no |-> sentence_no]
    ELSE AddSentences(Tail(sents),
                      add_sentence_to_word_rows(Head(sents), word_rows,
                                                sentence_no + 1, file_no),
                      sentence_no + 1, file_no)

\* locals of add_data_to_db before its loop; appended records every row
\* add_sentence_to_word_rows has appended to word_rows in this call
WorkerStart ==
    [pos |-> 0, leftovers |-> <<>>, sentence_no |-> 0, word_rows |-> <<>>,
     appended |-> <<>>]

\* the bulk-insert test at the end of one loop iteration
BufferFull(word_rows, bulk) == Len(word_rows) >= bulk

\* word_rows after a bulk insert that leaves the rows in the list
BufferNotCleared(word_rows) == word_rows

\* word_rows after "del word_rows[:]"
ClearedBuffer(word_rows) == <<>>

\* the rows of after that follow the rows of before
NewRows(before, after) == SubSeq(after, Len(before) + 1, Len(after))

\* one iteration of "for chunk in read_in_chunks(f)":
\* w are the locals after it, ins the rows it inserted and committed
LoopBody(w, text, file_no, cs, bulk) ==
    LET chunk == w.leftovers \o ReadChunk(text, w.pos, cs)
        sents == Sents(chunk)
        r     == AddSentences(AllButLast(sents), w.word_rows, w.sentence_no,
                              file_no)
        full  == BufferFull(r.word_rows, bulk)
    IN  [w   |-> [pos         |-> Min(w.pos + cs, Len(text)),
                  leftovers   |-> Last(sents),
                  sentence_no |-> r.sentence_no,
                  word_rows   |-> IF full THEN ClearedBuffer(r.word_rows)
                                          ELSE r.word_rows,
                  appended    |-> w.appended
                                      \o NewRows(w.word_rows, r.word_rows)],
         ins |-> IF full THEN r.word_rows ELSE <<>>]

\* the block after the loop entered unconditionally
AlwaysProcessesLeftovers(w) == TRUE

\* the guard of the block after the loop: "if word_rows:"
ProcessesLeftovers(w) == w.word_rows # <<>>

\* the block after the loop: the leftovers become the last sentence
AfterLoop(w, file_no) ==
    LET rows == add_sentence_to_word_rows(w.leftovers, w.word_rows,
                                          w.sentence_no + 1, file_no)
    IN  IF ProcessesLeftovers(w)
        THEN [sentence_no |-> w.sentence_no + 1,
              ins         |-> rows,
              word_rows   |-> rows,
              appended    |-> w.appended \o NewRows(w.word_rows, rows)]
        ELSE [sentence_no |-> w.sentence_no,
              ins         |-> <<>>,
              word_rows   |-> w.word_rows,
              appended    |-> w.appended]

\* the final 'fake' word row
SentinelRow(file_no) == Row(SENTINEL_WORD, 0, file_no)

RECURSIVE RunLoop(_, _, _, _, _, _)
RunLoop(w, rows, text, file_no, cs, bulk) ==
    IF w.pos >= Len(text)
    THEN [w |-> w, rows |-> rows]
    ELSE LET s == LoopBody(w, text, file_no, cs, bulk)
         IN  RunLoop(s.w, rows \o s.ins, text, file_no, cs, bulk)

\* a whole call add_data_to_db((filename, file_no)) on a file holding text:
\* the rows it inserts, in order, and the sentence count it returns
add_data_to_db(text, file_no, cs, bulk) ==
    LET l == RunLoop(WorkerStart, <<>>, text, file_no, cs, bulk)
        f == AfterLoop(l.w, file_no)
    IN  [rows     |-> l.rows \o f.ins \o <<SentinelRow(file_no)>>,
         ret      |-> f.sentence_no,
         appended |-> f.appended]

(***************************************************************************)
(* Databases                                                               *)
(***************************************************************************)
\* sort key of 'bridgewater{n}.db' among the names of 1..10
DbNameKey(n) == IF n < 10 THEN 10 * n ELSE n + 1

\* get_database_names(): the names (their numbers), sorted as strings
get_database_names(n) ==
    [i \in 1..n |->
        CHOOSE d \in 1..n :
            Cardinality({e \in 1..n : DbNameKey(e) < DbNameKey(d)}) = i - 1]

\* databases[0], the database combine_database_files returns
MainDb == get_database_names(number_of_threads)[1]

\* UPDATE words SET sentence_no = sentence_no + ?
UpdateSentenceNo(rows, by) ==
    [i \in 1..Len(rows) |->
        [rows[i] EXCEPT !.sentence_no = @ + by]]

\* SELECT count(*) from words
CountRows(rows) == Len(rows)

RECURSIVE OrderFrom(_, _)
OrderFrom(rows, r) ==
    IF r > Len(WordOrder)
    THEN <<>>
    ELSE SelectSeq(rows, LAMBDA x : x.word = WordOrder[r])
         \o OrderFrom(rows, r + 1)

\* SELECT word,sentence_no,file_no FROM words ORDER BY word
\* (rows of one word come in rowid order, as the scan of word_index gives them)
OrderByWord(rows) == OrderFrom(rows, 1)

(***************************************************************************)
(* Line labels                                                             *)
(***************************************************************************)
alph ==
    <<"a", "b", "c", "d", "e", "f", "g", "h", "i", "j", "k", "l", "m",
      "n", "o", "p", "q", "r", "s", "t", "u", "v", "w", "x", "y", "z">>

\* n copies of character c: c * n  (no copy when n <= 0)
Repeat(c, n) == [i \in 1..n |-> c]

\* math.ceil(integer / 26.0)
Multiplier(integer) == (integer + 25) \div 26

\* integer_to_letter without the repetition of the letter
LetterNotRepeated(integer) ==
    <<alph[((integer - 1) % 26) + 1], ".">> \o Repeat(" ", 5)

\* integer_to_letter(integer), as a sequence of characters
integer_to_letter(integer) ==
    LET multiplier == Multiplier(integer)
        letter     == integer - (multiplier - 1) * 26
        letters    == Repeat(alph[letter], multiplier)
        spaces     == Repeat(" ", 6 - Len(letters))
    IN  letters \o <<".">> \o spaces

(***************************************************************************)
(* Input documents                                                         *)
(***************************************************************************)
\* the word of a bounded document at position p
PositionWord(p) == IF p % 2 = 1 THEN "Dogs" ELSE "bark"

\* terminator positions that leave at least one word in every sentence
WellFormed(S) == 1 \notin S /\ \A p \in S : p + 1 \notin S

\* the documents of n tokens: the positions of S hold a terminator
DocsOfLength(n) ==
    { [p \in 1..n |-> IF p \in S THEN "." ELSE PositionWord(p)] :
        S \in {T \in SUBSET (1..n) : WellFormed(T)} }

Docs == UNION { DocsOfLength(n) : n \in 0..MaxDocLen }

\* "Dogs bark. Cats meow. Dogs run."
ScenarioDoc ==
    <<"Dogs", "bark", ".", "Cats", "meow", ".", "Dogs", "run", ".">>

\* a document with a word that sorts after 'z'*25
CollisionDoc ==
    <<"école", "bark", ".", "Dogs", "run", ".", "Cats", ".">>

\* documents far shorter than one chunk and than one bulk insert
SmallDocs == {ScenarioDoc, CollisionDoc}

\* a document of five sentences, longer than the bounded documents
LongDoc ==
    <<"Dogs", "bark", ".", "Cats", "meow", ".", "Dogs", "run", ".",
      "Cats", "run", ".", "Dogs", "meow", ".">>

\* a document that starts with sentences of punctuation only
PunctDoc ==
    <<".", ".", ".", ".", "Dogs", ".", "bark", "Dogs", ".", "bark", "bark">>

\* documents of many chunks
LongDocs == {LongDoc, PunctDoc}

(***************************************************************************)
(* __main__ of concordance.py                                              *)
(***************************************************************************)
Shards == 1..number_of_threads

NoSplit == [pos |-> 0, leftovers |-> <<>>, current_file |-> 0,
            new_filesize |-> 0]
NoPrint == [rows |-> <<>>, i |-> 0, last_word |-> "",
            occurrence_list |-> <<>>, line_no |-> 0]
NoLabels == [a |-> 0, b |-> 0, la |-> <<>>, lb |-> <<>>, done |-> FALSE]

QueueIdle ==
    /\ queue = <<>>
    /\ cons = <<>>
    /\ completed = <<>>
    /\ reported = <<>>
    /\ failures = 0

Init ==
    /\ \/ /\ doc \in Docs
          /\ number_of_threads \in 1..MaxThreads
          /\ chunk_size = CHUNK_SIZE
          /\ bulk_insert_size = BULK_INSERT_SIZE
       \/ /\ doc \in LongDocs
          /\ number_of_threads \in 1..MaxThreads
          /\ chunk_size = CHUNK_SIZE
          /\ bulk_insert_size = BULK_INSERT_SIZE
       \/ /\ doc \in SmallDocs
          /\ number_of_threads \in 1..MAX_NUMBER_OF_THREADS
          /\ chunk_size = Len(doc)
          /\ bulk_insert_size = Len(doc) + 1
    /\ iobuf \in 0..MaxIOBuf
    /\ pc = "create"
    /\ run = 1
    /\ files = [i \in Shards |-> <<>>]
    /\ disk = [i \in Shards |-> 0]
    /\ sp = NoSplit
    /\ wpc = [i \in Shards |-> "idle"]
    /\ sentences = [i \in Shards |-> 0]
    /\ db = [i \in Shards |-> <<>>]
    /\ index = [i \in Shards |-> FALSE]
    /\ mg = 0
    /\ pr = NoPrint
    /\ output = <<>>
    /\ prev_output = <<>>
    /\ QueueIdle
    /\ lab = NoLabels

\* create_words_tables without DELETE FROM words
RowsKept(rows) == rows

\* DELETE FROM words
DeleteFromWords(rows) == <<>>

\* DROP INDEX IF EXISTS word_index
DropIndex(exists) == FALSE

\* create_words_tables(database_names)
CreateWordsTables ==
    /\ pc = "create"
    /\ db' = [d \in Shards |-> DeleteFromWords(db[d])]
    /\ index' = [d \in Shards |-> DropIndex(index[d])]
    /\ pc' = "split_open"
    /\ UNCHANGED <<doc, number_of_threads, chunk_size, bulk_insert_size,
                   iobuf, run, files, disk, sp, wpc, sentences, mg, pr,
                   output, prev_output, queueVars, lab>>

\* int(math.ceil(filesize / float(NUMBER_OF_THREADS)))
NewFilesize(filesize, n) == (filesize + n - 1) \div n

\* split_file: the shard files are opened for writing
SplitOpen ==
    /\ pc = "split_open"
    /\ files' = [i \in Shards |-> <<>>]
    /\ disk' = [i \in Shards |-> 0]
    /\ sp' = [NoSplit EXCEPT
                !.new_filesize = NewFilesize(Len(doc), number_of_threads)]
    /\ pc' = "split"
    /\ UNCHANGED <<doc, number_of_threads, chunk_size, bulk_insert_size,
                   iobuf, run, wpc, sentences, db, index, mg, pr, output,
                   prev_output, queueVars, lab>>

\* the size os.path.getsize reports after a write that brings the text of
\* the file to length written: the buffer is flushed once it holds more
\* than iobuf
SizeAfterWrite(on_disk, written) ==
    IF written - on_disk > iobuf THEN written ELSE on_disk

\* os.path.getsize(open_files[current_file].name) > new_filesize
TooLarge(f) == disk[f] > sp.new_filesize

\* split_file: one iteration of "for chunk in read_in_chunks(f)"
SplitChunk ==
    /\ pc = "split"
    /\ sp.pos < Len(doc)
    /\ LET chunk == sp.leftovers \o ReadChunk(doc, sp.pos, chunk_size)
           pos2  == Min(sp.pos + chunk_size, Len(doc))
           f     == sp.current_file + 1
           sents == Sents(chunk)
           text  == IF TooLarge(f)
                    THEN files[f] \o Join(AllButLast(sents))
                    ELSE files[f] \o chunk
       IN  IF sp.current_file >= number_of_threads
           THEN \* open_files[current_file] raises IndexError
                /\ pc' = "crashed"
                /\ UNCHANGED <<files, disk, sp>>
           ELSE /\ files' = [files EXCEPT ![f] = text]
                /\ disk' = [disk EXCEPT ![f] = SizeAfterWrite(@, Len(text))]
                /\ sp' = IF TooLarge(f)
                         THEN [sp EXCEPT !.pos = pos2,
                                         !.leftovers = Last(sents),
                                         !.current_file = @ + 1]
                         ELSE [sp EXCEPT !.pos = pos2]
                /\ pc' = pc
    /\ UNCHANGED <<doc, number_of_threads, chunk_size, bulk_insert_size,
                   iobuf, run, wpc, sentences, db, index, mg, pr, output,
                   prev_output, queueVars, lab>>

\* split_file: the input is exhausted, the shard files are closed;
\* __main__ hands one task per shard file to pool.map
SplitClose ==
    /\ pc = "split"
    /\ sp.pos >= Len(doc)
    /\ disk' = [i \in Shards |-> Len(files[i])]
    /\ wpc' = [i \in Shards |-> "queued"]
    /\ sentences' = [i \in Shards |-> 0]
    /\ pc' = "map"
    /\ UNCHANGED <<doc, number_of_threads, chunk_size, bulk_insert_size,
                   iobuf, run, files, sp, db, index, mg, pr, output,
                   prev_output, queueVars, lab>>

\* a pool thread runs add_data_to_db(('___generated___.w', w))
Task(w) ==
    /\ pc = "map"
    /\ wpc[w] = "queued"
    /\ LET r == add_data_to_db(files[w], w, chunk_size, bulk_insert_size)
       IN  /\ db' = [db EXCEPT ![w] = @ \o r.rows]
           /\ sentences' = [sentences EXCEPT ![w] = r.ret]
    /\ wpc' = [wpc EXCEPT ![w] = "done"]
    /\ UNCHANGED <<doc, number_of_threads, chunk_size, bulk_insert_size,
                   iobuf, pc, run, files, disk, sp, index, mg, pr, output,
                   prev_output, queueVars, lab>>

\* pool.map returning as soon as one task has returned
SomeTaskDone == \E w \in Shards : wpc[w] = "done"

\* pool.map returns once every task has returned
AllTasksDone == \A w \in Shards : wpc[w] = "done"

\* pool.map returns; combine_database_files connects to databases[0]
CombineOpen ==
    /\ pc = "map"
    /\ AllTasksDone
    /\ mg' = 2
    /\ pc' = "combine"
    /\ UNCHANGED <<doc, number_of_threads, chunk_size, bulk_insert_size,
                   iobuf, run, files, disk, sp, wpc, sentences, db, index,
                   pr, output, prev_output, queueVars, lab>>

\* combine_database_files: one iteration of "for db in databases[1:]"
CombineStep ==
    /\ pc = "combine"
    /\ mg <= number_of_threads
    /\ LET databases        == get_database_names(number_of_threads)
           main             == databases[1]
           next             == databases[mg]
           sentences_so_far == CountRows(db[main])
           updated          == UpdateSentenceNo(db[next], sentences_so_far)
       IN  db' = [db EXCEPT ![next] = updated, ![main] = @ \o updated]
    /\ mg' = mg + 1
    /\ UNCHANGED <<doc, number_of_threads, chunk_size, bulk_insert_size,
                   iobuf, pc, run, files, disk, sp, wpc, sentences, index,
                   pr, output, prev_output, queueVars, lab>>

\* combine_database_files returns databases[0]
CombineClose ==
    /\ pc = "combine"
    /\ mg > number_of_threads
    /\ pc' = "index"
    /\ UNCHANGED <<doc, number_of_threads, chunk_size, bulk_insert_size,
                   iobuf, run, files, disk, sp, wpc, sentences, db, index,
                   mg, pr, output, prev_output, queueVars, lab>>

\* add_index_to_db(cursor): CREATE INDEX fails when word_index exists
AddIndex ==
    /\ pc = "index"
    /\ IF index[MainDb]
       THEN pc' = "crashed" /\ index' = index
       ELSE pc' = "print" /\ index' = [index EXCEPT ![MainDb] = TRUE]
    /\ UNCHANGED <<doc, number_of_threads, chunk_size, bulk_insert_size,
                   iobuf, run, files, disk, sp, wpc, sentences, db, mg, pr,
                   output, prev_output, queueVars, lab>>

\* print_db: the output is opened and the query is executed
PrintOpen ==
    /\ pc = "print"
    /\ pr = NoPrint
    /\ pr' = [NoPrint EXCEPT !.rows = OrderByWord(db[MainDb]), !.i = 1]
    /\ output' = <<>>
    /\ UNCHANGED <<doc, number_of_threads, chunk_size, bulk_insert_size,
                   iobuf, pc, run, files, disk, sp, wpc, sentences, db,
                   index, mg, prev_output, queueVars, lab>>

\* the line print_db writes for last_word
Line(line_no, last_word, occurrence_list) ==
    [letter |-> integer_to_letter(line_no),
     word   |-> last_word,
     spaces |-> Len(Repeat(" ", 25 - StrLen(last_word))),
     count  |-> Len(occurrence_list),
     list   |-> occurrence_list]

\* "if last_word and (row[0] != last_word)"
WordSwitches(last_word, word) == last_word # "" /\ word # last_word

\* print_db: one iteration of the loop over the rows of the query
PrintRow ==
    /\ pc = "print"
    /\ pr.i >= 1
    /\ pr.i <= Len(pr.rows)
    /\ LET row == pr.rows[pr.i]
           sw  == WordSwitches(pr.last_word, row.word)
           ln  == IF sw THEN pr.line_no + 1 ELSE pr.line_no
           occ == IF sw THEN <<>> ELSE pr.occurrence_list
       IN  /\ output' = IF sw
                        THEN Append(output,
                                    Line(ln, pr.last_word, pr.occurrence_list))
                        ELSE output
           /\ pr' = [pr EXCEPT !.i = @ + 1,
                               !.line_no = ln,
                               !.last_word = row.word,
                               !.occurrence_list = Append(occ, row.sentence_no)]
    /\ UNCHANGED <<doc, number_of_threads, chunk_size, bulk_insert_size,
                   iobuf, pc, run, files, disk, sp, wpc, sentences, db,
                   index, mg, prev_output, queueVars, lab>>

\* print_db returns; __main__ closes the connection and reports success
PrintClose ==
    /\ pc = "print"
    /\ pr.i > Len(pr.rows)
    /\ pc' = "done"
    /\ pr' = NoPrint
    /\ prev_output' = IF run = 1 THEN output ELSE prev_output
    /\ UNCHANGED <<doc, number_of_threads, chunk_size, bulk_insert_size,
                   iobuf, run, files, disk, sp, wpc, sentences, db, index,
                   mg, output, queueVars, lab>>

\* the program is started again on the same document: the shard files,
\* the databases and the index are those the first run left
Rerun ==
    /\ pc \in {"done", "crashed"}
    /\ run = 1
    /\ run' = 2
    /\ pc' = "create"
    /\ prev_output' = output
    /\ output' = <<>>
    /\ sp' = NoSplit
    /\ pr' = NoPrint
    /\ mg' = 0
    /\ wpc' = [i \in Shards |-> "idle"]
    /\ sentences' = [i \in Shards |-> 0]
    /\ disk' = [i \in Shards |-> Len(files[i])]
    /\ UNCHANGED <<doc, number_of_threads, chunk_size, bulk_insert_size,
                   iobuf, files, db, index, queueVars, lab>>

Next ==
    \/ CreateWordsTables
    \/ SplitOpen
    \/ SplitChunk
    \/ SplitClose
    \/ \E w \in Shards : Task(w)
    \/ CombineOpen
    \/ CombineStep
    \/ CombineClose
    \/ AddIndex
    \/ PrintOpen
    \/ PrintRow
    \/ PrintClose
    \/ Rerun

Spec == Init /\ [][Next]_vars

(***************************************************************************)
(* add_data_worker.py: consumers of filename_queue                         *)
(***************************************************************************)
Consumers == 1..QConsumers

\* the shard files a job can name: an empty one, one of one sentence and
\* one of three sentences
QTexts ==
    {<<>>, <<"Dogs">>, <<"Dogs", "bark", ".", "Dogs", ".", "bark">>}

Idle == [job |-> 0, at |-> "idle", w |-> WorkerStart, sentence_no |-> 0]

\* basic_consume(..., no_ack=True): a job is acknowledged when delivered
AckedOnDelivery == {}

\* the positions of handle_message at which the job it was called for is
\* unacknowledged (no_ack=False): all those before basic_ack has returned
UnackedAt == {"loop", "sentinel", "ack"}

\* the jobs delivered to a consumer and not yet acknowledged
InFlight == {cons[c].job : c \in {k \in Consumers : cons[k].at \in UnackedAt}}

\* the jobs the broker still holds: ready, or delivered and unacknowledged
Unacked == {queue[k] : k \in 1..Len(queue)} \cup InFlight

InitQ ==
    /\ doc = <<>>
    /\ number_of_threads = QShards
    /\ chunk_size = CHUNK_SIZE
    /\ bulk_insert_size = BULK_INSERT_SIZE
    /\ iobuf = 0
    /\ pc = "queue"
    /\ run = 1
    /\ files \in [Shards -> QTexts]
    /\ disk = [i \in Shards |-> Len(files[i])]
    /\ sp = NoSplit
    /\ wpc = [i \in Shards |-> "idle"]
    /\ sentences = [i \in Shards |-> 0]
    /\ db = [i \in Shards |-> <<>>]
    /\ index = [i \in Shards |-> FALSE]
    /\ mg = 0
    /\ pr = NoPrint
    /\ output = <<>>
    /\ prev_output = <<>>
    /\ queue = [k \in Shards |-> k]
    /\ cons = [c \in Consumers |-> Idle]
    /\ completed = <<>>
    /\ reported = <<>>
    /\ failures = 0
    /\ lab = NoLabels

QFrame ==
    UNCHANGED <<doc, number_of_threads, chunk_size, bulk_insert_size, iobuf,
                pc, run, files, disk, sp, wpc, sentences, index, mg, pr,
                output, prev_output, lab>>

\* basic_consume with prefetch_count=1: the broker hands the oldest ready
\* job to a consumer that holds no unacknowledged job (the consumers are
\* alike: the first such consumer); handle_message calls add_data_to_db,
\* which connects and opens the file
Deliver(c) ==
    /\ cons[c].at = "idle"
    /\ \A k \in Consumers : k < c => cons[k].at # "idle"
    /\ queue # <<>>
    /\ cons' = [cons EXCEPT ![c] = [Idle EXCEPT !.job = Head(queue),
                                               !.at = "loop"]]
    /\ queue' = Tail(queue)
    /\ UNCHANGED <<db, completed, reported, failures>>
    /\ QFrame

\* add_data_to_db: one iteration of "for chunk in read_in_chunks(f)"
QLoop(c) ==
    /\ cons[c].at = "loop"
    /\ cons[c].w.pos < Len(files[cons[c].job])
    /\ LET j == cons[c].job
           s == LoopBody(cons[c].w, files[j], j, chunk_size, bulk_insert_size)
       IN  /\ db' = [db EXCEPT ![j] = @ \o s.ins]
           /\ cons' = [cons EXCEPT ![c].w = s.w]
    /\ UNCHANGED <<queue, completed, reported, failures>>
    /\ QFrame

\* add_data_to_db: the block after the loop
QAfterLoop(c) ==
    /\ cons[c].at = "loop"
    /\ cons[c].w.pos >= Len(files[cons[c].job])
    /\ LET j == cons[c].job
           f == AfterLoop(cons[c].w, j)
       IN  /\ db' = [db EXCEPT ![j] = @ \o f.ins]
           /\ cons' = [cons EXCEPT ![c].at = "sentinel",
                                   ![c].sentence_no = f.sentence_no,
                                   ![c].w.word_rows = f.word_rows,
                                   ![c].w.appended = f.appended]
    /\ UNCHANGED <<queue, completed, reported, failures>>
    /\ QFrame

\* add_data_to_db: the fake row is inserted and sentence_no is returned
QSentinel(c) ==
    /\ cons[c].at = "sentinel"
    /\ db' = [db EXCEPT ![cons[c].job] = Append(@, SentinelRow(cons[c].job))]
    /\ cons' = [cons EXCEPT ![c].at = "ack"]
    /\ UNCHANGED <<queue, completed, reported, failures>>
    /\ QFrame

\* handle_message: ch.basic_ack(delivery_tag=method.delivery_tag)
QAck(c) ==
    /\ cons[c].at = "ack"
    /\ cons' = [cons EXCEPT ![c].at = "publish"]
    /\ UNCHANGED <<db, queue, completed, reported, failures>>
    /\ QFrame

\* handle_message: basic_publish(routing_key='completed', body=str(sentence_no))
QPublish(c) ==
    /\ cons[c].at = "publish"
    /\ completed' = Append(completed, cons[c].sentence_no)
    /\ reported' = Append(reported, cons[c].job)
    /\ cons' = [cons EXCEPT ![c] = Idle]
    /\ UNCHANGED <<db, queue, failures>>
    /\ QFrame

\* the consumer dies inside handle_message: what it committed stays, a job
\* it has not acknowledged is requeued at the head of the queue, and a
\* consumer takes its place
QFail(c) ==
    /\ cons[c].at # "idle"
    /\ failures < MaxFailures
    /\ failures' = failures + 1
    /\ queue' = IF cons[c].job \in InFlight
                THEN <<cons[c].job>> \o queue
                ELSE queue
    /\ cons' = [cons EXCEPT ![c] = Idle]
    /\ UNCHANGED <<db, completed, reported>>
    /\ QFrame

NextQ ==
    \/ \E c \in Consumers : Deliver(c)
    \/ \E c \in Consumers : QLoop(c)
    \/ \E c \in Consumers : QAfterLoop(c)
    \/ \E c \in Consumers : QSentinel(c)
    \/ \E c \in Consumers : QAck(c)
    \/ \E c \in Consumers : QPublish(c)
    \/ \E c \in Consumers : QFail(c)

SpecQ == InitQ /\ [][NextQ]_vars

\* a consumer that has not died goes on: pika's blocking connection runs
\* handle_message to its end, and the broker delivers a ready job to a
\* consumer with no unacknowledged job
QStep(c) ==
    Deliver(c) \/ QLoop(c) \/ QAfterLoop(c) \/ QSentinel(c) \/ QAck(c)
        \/ QPublish(c)

QFairness == \A c \in Consumers : WF_vars(QStep(c))

\* the consumers under that scheduling; a failure may or may not happen
SpecQLive == InitQ /\ [][NextQ]_vars /\ QFairness

(***************************************************************************)
(* integer_to_letter applied to pairs of line numbers                      *)
(***************************************************************************)
InitLabel ==
    /\ doc = <<>>
    /\ number_of_threads = 1
    /\ chunk_size = CHUNK_SIZE
    /\ bulk_insert_size = BULK_INSERT_SIZE
    /\ iobuf = 0
    /\ pc = "label"
    /\ run = 1
    /\ files = [i \in Shards |-> <<>>]
    /\ disk = [i \in Shards |-> 0]
    /\ sp = NoSplit
    /\ wpc = [i \in Shards |-> "idle"]
    /\ sentences = [i \in Shards |-> 0]
    /\ db = [i \in Shards |-> <<>>]
    /\ index = [i \in Shards |-> FALSE]
    /\ mg = 0
    /\ pr = NoPrint
    /\ output = <<>>
    /\ prev_output = <<>>
    /\ QueueIdle
    /\ \E a \in 1..MaxLine, b \in 1..MaxLine :
          lab = [NoLabels EXCEPT !.a = a, !.b = b]

\* letter = integer_to_letter(line_no), for two values of line_no
ApplyLabels ==
    /\ pc = "label"
    /\ ~lab.done
    /\ lab' = [lab EXCEPT !.la = integer_to_letter(lab.a),
                          !.lb = integer_to_letter(lab.b),
                          !.done = TRUE]
    /\ UNCHANGED <<pipeVars, queueVars>>

NextLabel == ApplyLabels

SpecLabel == InitLabel /\ [][NextLabel]_vars

(***************************************************************************)
(* Claims                                                                  *)
(***************************************************************************)
\* split_file has returned in this run
SplitDone == pc \in {"map", "combine", "index", "print", "done"}

RECURSIVE ShardSentencesFrom(_)
ShardSentencesFrom(i) ==
    IF i > number_of_threads
    THEN <<>>
    ELSE Sents(files[i]) \o ShardSentencesFrom(i + 1)

\* the sentences of shard 1, then those of shard 2, ...
ShardSentences == ShardSentencesFrom(1)

\* C1: once split_file has returned, the sentences of the shard files, taken
\* in shard-id order, are exactly the sentences of the document, in order:
\* none dropped, none twice, none divided between two shards.
C1_ShardsReproduceDocument == SplitDone => ShardSentences = Sents(doc)

\* the rows add_data_to_db writes for shard file i
LocalRows(i) ==
    add_data_to_db(files[i], i, chunk_size, bulk_insert_size).rows

\* a row that is not a fake row
IsReal(row) == row.word # SENTINEL_WORD

RealRows(rows) == SelectSeq(rows, IsReal)

\* the largest sentence number of the real rows, 0 when there is none
MaxSentence(rows) ==
    LET S == {RealRows(rows)[k].sentence_no : k \in 1..Len(RealRows(rows))}
    IN  IF S = {} THEN 0 ELSE CHOOSE m \in S : \A x \in S : x <= m

\* the real rows of shard i number its sentences 1..n_i
LocalGapFree(i) ==
    LET real == RealRows(LocalRows(i))
    IN  {real[k].sentence_no : k \in 1..Len(real)}
            = 1..MaxSentence(LocalRows(i))

RECURSIVE OffsetOf(_)
\* n_1 + ... + n_(i-1)
OffsetOf(i) ==
    IF i <= 1 THEN 0 ELSE OffsetOf(i - 1) + MaxSentence(LocalRows(i - 1))

RECURSIVE RenumberedFrom(_)
RenumberedFrom(i) ==
    IF i > number_of_threads
    THEN <<>>
    ELSE UpdateSentenceNo(RealRows(LocalRows(i)), OffsetOf(i))
         \o RenumberedFrom(i + 1)

\* combine_database_files has returned in this run
MergeDone == pc \in {"index", "print", "done"}

\* C2: after the merge of shard stores whose real sentence numbers are
\* 1..n_i, the real rows of the combined store are the real rows of the
\* shards in shard order, those of shard i renumbered by n_1 + ... + n_(i-1).
C2_MergeOffsetIsSumOfMaxima ==
    (MergeDone /\ \A i \in Shards : LocalGapFree(i))
        => RealRows(db[MainDb]) = RenumberedFrom(1)

\* C3: whenever a job has been acknowledged, however often it was
\* delivered before, the store of its shard holds exactly the rows of one
\* uninterrupted add_data_to_db of that shard.
C3_RedeliveryLeavesOneCopy ==
    \A j \in Shards : (pc = "queue" /\ j \notin Unacked) => db[j] = LocalRows(j)

\* C3: a shard whose job is acknowledged after a redelivery
C3_Witness ==
    \E j \in Shards :
        pc = "queue" /\ j \notin Unacked /\ failures > 0 /\ db[j] # LocalRows(j)

\* C4: the merger runs only when every task of pool.map has returned, an
\* index exists only once the merge loop has ended, and none exists while
\* tasks or the merger write (an index the previous run left is dropped
\* by create_words_tables before the tasks start).
C4_PhaseOrder ==
    /\ pc \in {"combine", "index", "print", "done"}
           => \A w \in Shards : wpc[w] = "done"
    /\ pc \in {"split_open", "split", "map", "combine", "index"}
           => \A d \in Shards : ~index[d]
    /\ \A d \in Shards :
           (index[d] /\ pc \in {"print", "done"})
               => (d = MainDb /\ mg > number_of_threads)

\* C4: the rerun has indexed the merged store of several shards
C4_Witness ==
    /\ number_of_threads >= 2
    /\ run = 2
    /\ pc = "print"
    /\ index[MainDb]
    /\ RealRows(db[MainDb]) # <<>>

\* the rows a single shard holding the whole document gives (K = 1)
UnshardedRows ==
    add_data_to_db(doc, 1, chunk_size, bulk_insert_size).rows

\* C5: the combined store of K shards holds as many real rows as the
\* combined store of the same document with K = 1.
C5_SameCountAsOneShard ==
    MergeDone => Len(RealRows(db[MainDb])) = Len(RealRows(UnshardedRows))

\* with one shard the pipeline stores UnshardedRows
OneShardIsReference ==
    (MergeDone /\ number_of_threads = 1) => db[MainDb] = UnshardedRows

\* the rows of word in the combined store
RowsOfWord(word) == SelectSeq(db[MainDb], LAMBDA r : r.word = word)

\* the real words of the combined store
RealWords == {RealRows(db[MainDb])[k].word : k \in 1..Len(RealRows(db[MainDb]))}

\* C6: the lines are in alphabetical order of word, every real word of the
\* combined store is on exactly one line, and the count of a line is the
\* number of sentence numbers it lists and the number of rows of its word.
C6_OneLinePerWord ==
    pc = "done" =>
        /\ \A i \in 1..Len(output), j \in 1..Len(output) :
               i < j => Rank(output[i].word) <= Rank(output[j].word)
        /\ \A word \in RealWords :
               Cardinality({i \in 1..Len(output) : output[i].word = word}) = 1
        /\ \A i \in 1..Len(output) :
               /\ output[i].count = Len(output[i].list)
               /\ output[i].count = Len(RowsOfWord(output[i].word))

\* the label of line n: the letter at position (n-1) mod 26, ceil(n/26) times
IsLabelOf(label, n) ==
    LET count == ((n - 1) \div 26) + 1
    IN  /\ Len(label) >= count + 1
        /\ \A i \in 1..count : label[i] = alph[((n - 1) % 26) + 1]
        /\ label[count + 1] = "."
        /\ \A i \in (count + 2)..Len(label) : label[i] = " "

\* C7: the label of line n is one letter repeated ceil(n/26) times;
\* 26 -> z, 27 -> aa, 30 -> dd, 52 -> zz, 53 -> aaa; the labels of two
\* different lines differ.
C7_Labels ==
    lab.done =>
        /\ IsLabelOf(lab.la, lab.a)
        /\ lab.a # lab.b => lab.la # lab.lb
        /\ lab.a = 1 => lab.la = <<"a", ".", " ", " ", " ", " ", " ">>
        /\ lab.a = 26 => lab.la = <<"z", ".", " ", " ", " ", " ", " ">>
        /\ lab.a = 27 => lab.la = <<"a", "a", ".", " ", " ", " ", " ">>
        /\ lab.a = 30 => lab.la = <<"d", "d", ".", " ", " ", " ", " ">>
        /\ lab.a = 52 => lab.la = <<"z", "z", ".", " ", " ", " ", " ">>
        /\ lab.a = 53 => lab.la = <<"a", "a", "a", ".", " ", " ", " ">>

\* C7: lines 1 and 27 have been labelled
C7_Witness == lab.done /\ lab.a = 27 /\ lab.b = 1 /\ lab.la # lab.lb

\* a line of the listing of the scenario
ScenarioLine(letter, word, spaces, list) ==
    [letter |-> <<letter, ".", " ", " ", " ", " ", " ">>, word |-> word,
     spaces |-> spaces, count |-> Len(list), list |-> list]

\* C8: for "Dogs bark. Cats meow. Dogs run." and one shard, the store
\* holds dogs->{1,3}, bark->{1}, cats->{2}, meow->{2}, run->{3} and the
\* listing is a. bark {1:1}, b. cats {1:2}, c. dogs {2:1,3},
\* d. meow {1:2}, e. run {1:3}.
C8_Scenario ==
    (doc = ScenarioDoc /\ number_of_threads = 1) =>
        /\ MergeDone =>
              RealRows(db[MainDb]) =
                  <<Row("dogs", 1, 1), Row("bark", 1, 1), Row("cats", 2, 1),
                    Row("meow", 2, 1), Row("dogs", 3, 1), Row("run", 3, 1)>>
        /\ pc = "done" =>
              output = <<ScenarioLine("a", "bark", 21, <<1>>),
                         ScenarioLine("b", "cats", 21, <<2>>),
                         ScenarioLine("c", "dogs", 21, <<1, 3>>),
                         ScenarioLine("d", "meow", 21, <<2>>),
                         ScenarioLine("e", "run", 22, <<3>>)>>

\* C8: the scenario has been rendered
C8_Witness ==
    doc = ScenarioDoc /\ number_of_threads = 1 /\ pc = "done" /\ Len(output) = 5

\* C9: the rerun ends as the first run did and writes the same listing.
C9_RerunSameOutput ==
    (run = 2 /\ pc \in {"done", "crashed"}) => output = prev_output

\* C9: a rerun over stores the first merge renumbered in place
C9_Witness ==
    /\ run = 2
    /\ pc = "done"
    /\ output # <<>>
    /\ \E i \in Shards : i # MainDb /\ RealRows(db[i]) # <<>>

\* C10: a task on an empty shard file writes the fake row only and returns
\* 0; when every shard file is empty the program does not fail and the
\* listing is empty.
C10_EmptyShards ==
    /\ \A w \in Shards :
           (pc = "map" /\ wpc[w] = "done" /\ files[w] = <<>>)
               => (db[w] = <<SentinelRow(w)>> /\ sentences[w] = 0)
    /\ (SplitDone /\ \A i \in Shards : files[i] = <<>>)
           => (pc = "done" => output = <<>>)
    /\ (doc = <<>> /\ pc # "queue") => pc # "crashed"

\* C10: an empty document has been merged and rendered from several shards
C10_Witness ==
    /\ pc = "done"
    /\ number_of_threads >= 2
    /\ \A i \in Shards : files[i] = <<>> /\ sentences[i] = 0
    /\ Len(db[MainDb]) = number_of_threads
    /\ output = <<>>

\* the rows of the surviving tokens of every sentence of shard file i,
\* each under the number of its sentence in the file
SentenceRows(i) == AddSentences(Sents(files[i]), <<>>, 0, i).word_rows

\* C11: a task that has returned for a non-empty shard file returns the
\* number of sentences of the file, and the store of the shard holds the
\* surviving tokens of every sentence of the file, the last one included,
\* under its local number, followed by the fake row.
C11_LastSentenceProcessed ==
    \A w \in Shards :
        (pc = "map" /\ wpc[w] = "done" /\ files[w] # <<>>)
            => /\ sentences[w] = Len(Sents(files[w]))
               /\ db[w] = SentenceRows(w) \o <<SentinelRow(w)>>

\* C11: a task has returned for a shard file of one sentence with an
\* empty row buffer, and the store of the shard holds the fake row only
C11_Witness ==
    \E w \in Shards :
        /\ pc = "map"
        /\ wpc[w] = "done"
        /\ Len(Sents(files[w])) = 1
        /\ SentenceRows(w) # <<>>
        /\ sentences[w] = 0
        /\ db[w] = <<SentinelRow(w)>>

\* the shard ids of the rows of a store, in rowid order
FileNos(rows) == [k \in 1..Len(rows) |-> rows[k].file_no]

\* C12: for every shard count up to the documented maximum the merger
\* visits the stores in the order 1, 2, ..., K: the store at every position
\* of databases is the one of that shard id, and in the combined store no
\* row of a shard comes before a row of a shard with a smaller id.
C12_MergeInShardOrder ==
    /\ (pc = "combine" /\ mg <= number_of_threads)
           => get_database_names(number_of_threads)[mg] = mg
    /\ MergeDone =>
           \A i \in 1..Len(db[MainDb]), j \in 1..Len(db[MainDb]) :
               i < j => FileNos(db[MainDb])[i] <= FileNos(db[MainDb])[j]

\* C12: with ten shards the second store the merger visits is that of
\* shard 10
C12_Witness ==
    /\ number_of_threads = MAX_NUMBER_OF_THREADS
    /\ pc = "combine"
    /\ mg = 3
    /\ FileNos(db[MainDb]) = <<1, 1, 1, 1, 1, 1, 1, 10>>

\* the sentence numbers of the rows of a store, in rowid order
SentenceNos(rows) == [k \in 1..Len(rows) |-> rows[k].sentence_no]

\* C13: no line of the listing has the word of the fake rows, and the
\* sentence numbers of every line are those of the rows of its word, none
\* of them a fake row.
C13_SentinelNotListed ==
    \A i \in 1..Len(output) :
        /\ output[i].word # SENTINEL_WORD
        /\ output[i].list = SentenceNos(RealRows(RowsOfWord(output[i].word)))

\* C13: the listing of several shards has a line for the word of the
\* fake rows
C13_Witness ==
    /\ pc = "done"
    /\ number_of_threads >= 2
    /\ \E i \in 1..Len(output) :
           /\ output[i].word = SENTINEL_WORD
           /\ output[i].count = number_of_threads

\* the word and the shard id of every row of a store, in rowid order
WordsAndFiles(rows) ==
    [k \in 1..Len(rows) |-> <<rows[k].word, rows[k].file_no>>]

\* C14: after the merge every fake row has sentence number 0, the rows of
\* the first shard are as its task wrote them, and in every store the
\* words and shard ids of the rows the task wrote are unchanged.
C14_MergeFrame ==
    MergeDone =>
        /\ \A d \in Shards : \A k \in 1..Len(db[d]) :
               ~IsReal(db[d][k]) => db[d][k].sentence_no = 0
        /\ SubSeq(db[MainDb], 1, Len(LocalRows(MainDb))) = LocalRows(MainDb)
        /\ \A d \in Shards :
               SubSeq(WordsAndFiles(db[d]), 1, Len(LocalRows(d)))
                   = WordsAndFiles(LocalRows(d))

\* C14: the merge has given the fake row of the second shard a sentence
\* number other than 0, in its own store and in the combined store
C14_Witness ==
    /\ MergeDone
    /\ number_of_threads = 2
    /\ RealRows(db[2]) # <<>>
    /\ db[2][Len(db[2])] = Row(SENTINEL_WORD, Len(LocalRows(1)), 2)
    /\ db[MainDb][Len(db[MainDb])] = Row(SENTINEL_WORD, Len(LocalRows(1)), 2)

\* the count add_data_to_db returns for shard file j
LocalCount(j) == add_data_to_db(files[j], j, chunk_size, bulk_insert_size).ret

\* C15: every message on queue 'completed' is the count of the shard it
\* was published for and tells which shard that is: the messages published
\* for two different shards differ.
C15_ReportsIdentifyShard ==
    /\ \A i \in 1..Len(completed) : completed[i] = LocalCount(reported[i])
    /\ \A i \in 1..Len(completed), k \in 1..Len(completed) :
           reported[i] # reported[k] => completed[i] # completed[k]

\* C15: the reports of two non-empty shards are the same message
C15_Witness ==
    /\ Len(completed) = 2
    /\ reported = <<1, 2>>
    /\ files[1] # <<>>
    /\ files[2] # <<>>
    /\ completed[1] = completed[2]

\* the rows a are the last rows of b
IsSuffix(a, b) ==
    /\ Len(a) <= Len(b)
    /\ SubSeq(b, Len(b) - Len(a) + 1, Len(b)) = a

\* the jobs ready for delivery
Ready == {queue[k] : k \in 1..Len(queue)}

\* a job stops being unacknowledged only when the consumer that holds it
\* returns from basic_ack
LeavesByAck(j) ==
    (j \in Unacked /\ j \notin Unacked')
        => \E c \in Consumers :
               /\ cons[c].job = j
               /\ cons[c].at = "ack"
               /\ cons'[c].at = "publish"

\* the store of the shard of an acknowledged job is not written again
StoreFinalOnceAcked(j) == j \notin Unacked => db'[j] = db[j]

\* C16: when a consumer calls basic_ack the store of the shard ends with
\* all the rows of one whole add_data_to_db of the shard, fake row
\* included, and it is as the call left it for as long as the job is
\* acknowledged; a job leaves the unacknowledged jobs only by basic_ack, so
\* a consumer that dies earlier leaves it to be delivered again; no job is
\* held by two consumers or held and ready at once, a consumer holding one
\* job at a time.
C16_AckAfterProcessing ==
    /\ [](pc = "queue" =>
            /\ \A c \in Consumers :
                   cons[c].at = "ack"
                       => IsSuffix(LocalRows(cons[c].job), db[cons[c].job])
            /\ \A j \in Shards :
                   j \notin Unacked
                       => (db[j] # <<>> /\ db[j][Len(db[j])] = SentinelRow(j))
            /\ \A c \in Consumers, d \in Consumers :
                   (c # d /\ cons[c].at \in UnackedAt /\ cons[d].at \in UnackedAt)
                       => cons[c].job # cons[d].job
            /\ Ready \cap InFlight = {}
            /\ Cardinality(Ready) = Len(queue))
    /\ [][\A j \in Shards : LeavesByAck(j) /\ StoreFinalOnceAcked(j)]_vars

\* C16: a consumer has acknowledged a job that was delivered again after
\* a consumer died with rows of it committed
C16_Witness ==
    \E c \in Consumers :
        /\ cons[c].at = "publish"
        /\ failures > 0
        /\ Len(db[cons[c].job]) > Len(LocalRows(cons[c].job))
        /\ cons[c].job \notin Unacked

\* split_file has raised: the program has stopped before any task ran
SplitRaised == pc = "crashed" /\ \A w \in Shards : wpc[w] = "idle"

\* while the last shard is the current one, a chunk that is read ends up
\* at the end of the last shard file
LastShardTakesChunk ==
    (/\ pc = "split"
     /\ sp.current_file = number_of_threads - 1
     /\ sp.pos < Len(doc))
        => /\ pc' = "split"
           /\ IsSuffix(ReadChunk(doc, sp.pos, chunk_size),
                       files'[number_of_threads])

\* C17: split_file never raises, open_files is only indexed at 0..K-1
\* (current_file, counted from 0, stays below K: the K-th shard is never
\* cut), and every chunk read while the K-th shard is current is written
\* to it.
C17_SplitterStaysInBounds ==
    /\ [](~SplitRaised /\ sp.current_file < number_of_threads)
    /\ [][LastShardTakesChunk]_vars

\* C17: the last shard has been cut and the next chunk has found no shard
C17_Witness ==
    /\ SplitRaised
    /\ sp.current_file = number_of_threads
    /\ sp.pos < Len(doc)
    /\ files[number_of_threads] # <<>>

\* the numbers of a list never go down
NonDecreasing(list) ==
    \A a \in 1..Len(list), b \in 1..Len(list) : a < b => list[a] <= list[b]

\* the rows of a scan are ordered by word, rows of one word by number
OrderedByWordThenNo(rows) ==
    \A a \in 1..Len(rows), b \in 1..Len(rows) :
        a < b =>
            \/ Rank(rows[a].word) < Rank(rows[b].word)
            \/ /\ rows[a].word = rows[b].word
               /\ rows[a].sentence_no <= rows[b].sentence_no

\* C18: the rows print_db reads are in ascending order of word and, for
\* one word, of sentence number, and the sentence numbers of every line of
\* the listing are in non-decreasing order.
C18_LineNumbersAscend ==
    /\ OrderedByWordThenNo(pr.rows)
    /\ \A i \in 1..Len(output) : NonDecreasing(output[i].list)

\* C18: a line of the finished listing has a number after a greater one
C18_Witness ==
    /\ pc = "done"
    /\ \E i \in 1..Len(output) :
           /\ IsReal(output[i])
           /\ ~NonDecreasing(output[i].list)

\* the consumers inside add_data_to_db's loop, and those past its last
\* bulk insert
InLoop == {c \in Consumers : cons[c].at = "loop"}
PastLoop == {c \in Consumers : cons[c].at \in {"sentinel", "ack", "publish"}}

Acknowledged(j) == pc = "queue" /\ j \notin Unacked

\* a message on queue 'completed' was published for the job
Reported(j) == \E i \in 1..Len(reported) : reported[i] = j

\* C20: consumers may die at any step and unacknowledged jobs are
\* delivered again; every job that has been acknowledged eventually has
\* its report on queue 'completed'.
C20_AckedJobsGetReported ==
    \A j \in 1..QShards : Acknowledged(j) ~> Reported(j)

\* C20: a consumer died between basic_ack and basic_publish: the job is
\* acknowledged, no consumer holds it, and it has no report
C20_Witness ==
    \E j \in Shards :
        /\ Acknowledged(j)
        /\ ~Reported(j)
        /\ \A c \in Consumers : cons[c].job # j
        /\ failures > 0

====
